---- MODULE Spec2Model ----
(***************************************************************************)
(* Flappy Dragon (src/src/main.rs): the Player, the Obstacle and the       *)
(* three-mode State machine driven by one tick per frame.                  *)
(*                                                                         *)
(* Numbers.  The f32 fields of Player and the frame time are modelled as   *)
(* IEEE 754 binary32 values: a record [m, e] stands for m * 2^e with       *)
(* 2^23 <= |m| < 2^24, and [m |-> 0, e |-> 0] for zero.  F32Add, F32Mul    *)
(* and F32Div round to nearest, ties to even, as the program's +, * and /  *)
(* do, so update() yields the program's values bit for bit.  Left out:     *)
(* NaN, the infinities, subnormal numbers and the sign of zero (a negative *)
(* zero adds, compares and rounds like zero, and no field of the game ever *)
(* holds one).  The i32 values are plain integers; none comes near the     *)
(* width of i32 within the bounds explored.  ctx.frame_time_ms is a whole  *)
(* number of milliseconds.                                                 *)
(***************************************************************************)
EXTENDS Integers, FiniteSets, Sequences, TLC

\* ------------------------------------------------------- f32 arithmetic
Abs(n) == IF n < 0 THEN -n ELSE n

Sign(n) == IF n < 0 THEN -1 ELSE 1

Max(a, b) == IF a >= b THEN a ELSE b

\* i32 division truncates toward zero
TruncDiv(a, b) == IF a >= 0 THEN a \div b ELSE -((-a) \div b)

\* the number of binary digits of n >= 0
BL2(n) == IF n >= 2 THEN 2 ELSE n

BL4(n) == IF n >= 4 THEN 2 + BL2(n \div 4) ELSE BL2(n)

BL8(n) == IF n >= 16 THEN 4 + BL4(n \div 16) ELSE BL4(n)

BL16(n) == IF n >= 256 THEN 8 + BL8(n \div 256) ELSE BL8(n)

BitLen(n) == IF n >= 65536 THEN 16 + BL16(n \div 65536) ELSE BL16(n)

F32_ZERO == [m |-> 0, e |-> 0]

\* q with a remainder r out of 2h rounded to nearest, ties to even, as the
\* f32 of sign s and exponent e; a mantissa that rounds up to 2^24 is 2^23
\* with the next exponent
F32Pack(s, q, r, h, e) ==
    CHOOSE v \in {IF b > h \/ (b = h /\ a % 2 = 1)
                  THEN IF a + 1 = 2^24 THEN [m |-> s * 2^23, e |-> e + 1]
                                       ELSE [m |-> s * (a + 1), e |-> e]
                  ELSE [m |-> s * a, e |-> e]
                  : a \in {q}, b \in {r}} : TRUE

\* F32Of for an integer n # 0 of b binary digits
F32Norm(n, b, e) ==
    IF b <= 24
    THEN [m |-> n * 2^(24 - b), e |-> e - (24 - b)]
    ELSE F32Pack(Sign(n), Abs(n) \div 2^(b - 24), Abs(n) % 2^(b - 24), 2^(b - 25), e + b - 24)

\* the f32 nearest to n * 2^e.  (The operands are bound by a set constructor
\* here and below so that each is evaluated once.)
F32Of(n, e) ==
    CHOOSE r \in {IF a = 0 THEN F32_ZERO
                  ELSE CHOOSE v \in {F32Norm(a, b, e) : b \in {BitLen(Abs(a))}} : TRUE
                  : a \in {n}} : TRUE

\* an i32 `as f32`, and an integral literal such as 15.0
FromInt(n) == F32Of(n, 0)

\* the operand lo of a sum, of exponent d below the other's, in units of an
\* eighth of the other's last place; what it has below that is kept as one
\* sticky bit
Aligned(lo, d) ==
    IF d <= 3 THEN lo.m * 2^(3 - d)
    ELSE IF d >= 28 THEN Sign(lo.m)
    ELSE IF Abs(lo.m) % 2^(d - 3) # 0 /\ (Abs(lo.m) \div 2^(d - 3)) % 2 = 0
         THEN Sign(lo.m) * (Abs(lo.m) \div 2^(d - 3) + 1)
         ELSE Sign(lo.m) * (Abs(lo.m) \div 2^(d - 3))

\* x + y
F32Add(x, y) ==
    CHOOSE r \in {IF a.m = 0 THEN b
                  ELSE IF b.m = 0 THEN a
                  ELSE IF a.e >= b.e THEN F32Of(8 * a.m + Aligned(b, a.e - b.e), a.e - 3)
                  ELSE F32Of(8 * b.m + Aligned(a, b.e - a.e), b.e - 3)
                  : a \in {x}, b \in {y}} : TRUE

\* the f32 of sign s and exponent e for the 48-bit product hi * 2^24 + lo of
\* two mantissas
F32Product(s, hi, lo, e) ==
    IF hi >= 2^23
    THEN F32Pack(s, hi, lo, 2^23, e + 24)
    ELSE F32Pack(s, 2 * hi + lo \div 2^23, lo % 2^23, 2^22, e + 23)

\* the product a * b of two mantissas, as <<high, low>> halves of 24 bits,
\* from the 12-bit halves of a and b
Mul48(a, b) ==
    CHOOSE r \in {<<(a \div 4096) * (b \div 4096) + mid \div 4096 + lo \div 2^24, lo % 2^24>> :
                  mid \in {(a \div 4096) * (b % 4096) + (a % 4096) * (b \div 4096)},
                  lo \in {(a % 4096) * (b % 4096)
                          + (((a \div 4096) * (b % 4096) + (a % 4096) * (b \div 4096)) % 4096) * 4096}} : TRUE

\* x * y
F32Mul(x, y) ==
    CHOOSE r \in {IF a.m = 0 \/ b.m = 0 THEN F32_ZERO
                  ELSE CHOOSE q \in {F32Product(Sign(a.m) * Sign(b.m), p[1], p[2], a.e + b.e) :
                                     p \in {Mul48(Abs(a.m), Abs(b.m))}} : TRUE
                  : a \in {x}, b \in {y}} : TRUE

\* more binary digits of a quotient: qr is <<quotient, remainder>> for the
\* divisor b < 2^24
DivStep(qr, b, bits) ==
    CHOOSE r \in {<<v[1] * 2^bits + (v[2] * 2^bits) \div b, (v[2] * 2^bits) % b>> : v \in {qr}} : TRUE

\* the quotient of the mantissas a / b to 24 binary digits with its remainder
Div24(a, b) ==
    IF a >= b
    THEN DivStep(DivStep(DivStep(DivStep(<<1, a - b>>, b, 7), b, 7), b, 7), b, 2)
    ELSE DivStep(DivStep(DivStep(DivStep(<<0, a>>, b, 7), b, 7), b, 7), b, 3)

\* x / y for y # 0
F32Div(x, y) ==
    CHOOSE r \in {IF a.m = 0 THEN F32_ZERO
                  ELSE CHOOSE q \in {F32Pack(Sign(a.m) * Sign(b.m), qr[1], 2 * qr[2], Abs(b.m),
                                             IF Abs(a.m) >= Abs(b.m) THEN a.e - b.e - 23 ELSE a.e - b.e - 24) :
                                     qr \in {Div24(Abs(a.m), Abs(b.m))}} : TRUE
                  : a \in {x}, b \in {y}} : TRUE

\* a decimal literal n/d (9.8 is Dec(98, 10)): the nearest f32
Dec(n, d) == F32Div(FromInt(n), FromInt(d))

\* f32::round (nearest integer, halves away from zero) followed by `as i32`
Round(v) ==
    IF v.e >= 0 THEN v.m * 2^v.e
    ELSE IF -v.e > 24 THEN 0
    ELSE Sign(v.m) * ((Abs(v.m) + 2^(-v.e - 1)) \div 2^(-v.e))

\* ------------------------------------------------------------- constants
\* 9.8 as f32: 10276045 * 2^-20 (= Dec(98, 10))
ACCEL_GRAVITY == [m |-> 10276045, e |-> -20]
\* -15.0 (= FromInt(-15))
VELOCITY_FLAP == [m |-> -15728640, e |-> -20]
SCREEN_WIDTH == 80
SCREEN_HEIGHT == 50
PLAYER_OFFSET == 5
\* dx: 15.0 (= FromInt(15))
PLAYER_DX == [m |-> 15728640, e |-> -20]
GAP_Y_MIN == 10
GAP_Y_MAX == 40
SIZE_BASE == 20
SIZE_MIN == 2

\* ---------------------------------------------------------------- bounds
\* Playing ticks are taken only while score < MaxScore.
MaxScore == 2
\* largest score handed to Obstacle::new in the unit specification
MaxUnitScore == 25

\* ctx.frame_time_ms offered by the host
Deltas == {0, 1000}
\* the gap centres random.range(10, 40) returns: 10 up to but excluding 40
GapYs == GAP_Y_MIN..(GAP_Y_MAX - 1)
\* ctx.key: no key this frame, or one of the key codes the game looks at
Keys == {"None", "Space", "P", "Q"}
GameModes == {"Menu", "Playing", "End"}

VARIABLES player, obstacle, mode, score, frame_time, quitting, key, handler, hit_ret,
          glyph, walls, tested, replaced, flaps_left

\* player .. frame_time are the fields of State; quitting and key are fields of
\* the BTerm context; glyph is the cell on which the latest tick set '@' and
\* walls the runs of cells on which it set '|'.  The others record history: handler the
\* function that served the latest tick, hit_ret what hit() returned in it,
\* tested whether some tick found the player in the live obstacle's column
\* and hit() false, replaced the obstacle the latest tick dropped (with its
\* tested flag and the player's world x before the tick; <<>> if none),
\* flaps_left the flaps the player will still make in the current game (used
\* by FallSpec only).
vars == <<player, obstacle, mode, score, frame_time, quitting, key, handler, hit_ret,
          glyph, walls, tested, replaced, flaps_left>>

\* ---------------------------------------------------------------- Player
Player_new(x, y) == [x |-> x, y |-> y, dx |-> PLAYER_DX, dy |-> F32_ZERO]

screen_y(p) == Round(p.y)

world_x(p) == Round(p.x)

\* Player::render: the cell set to '@'
Player_render(p) == {<<PLAYER_OFFSET, screen_y(p)>>}

\* the clamp of y at the end of update; y < 0.0 is the sign of the mantissa
Clamp(y) == CHOOSE r \in {IF a.m < 0 THEN F32_ZERO ELSE a : a \in {y}} : TRUE

\* update without the clamp of y at 0
update_noClamp(p, delta_s) ==
    LET dy1 == F32Add(p.dy, F32Mul(ACCEL_GRAVITY, delta_s))
    IN  [x |-> F32Add(p.x, F32Mul(p.dx, delta_s)), y |-> F32Add(p.y, F32Mul(dy1, delta_s)),
         dx |-> p.dx, dy |-> dy1]

\* update without gravity
update_noGravity(p, delta_s) ==
    [x |-> F32Add(p.x, F32Mul(p.dx, delta_s)), y |-> Clamp(F32Add(p.y, F32Mul(p.dy, delta_s))),
     dx |-> p.dx, dy |-> p.dy]

\* update moving y by the old dy (gravity applied after the move)
update_moveFirst(p, delta_s) ==
    [x |-> F32Add(p.x, F32Mul(p.dx, delta_s)), y |-> Clamp(F32Add(p.y, F32Mul(p.dy, delta_s))),
     dx |-> p.dx, dy |-> F32Add(p.dy, F32Mul(ACCEL_GRAVITY, delta_s))]

\* Player::update
update(p, delta_s) ==
    CHOOSE r \in {[x |-> F32Add(p.x, F32Mul(p.dx, delta_s)),
                   y |-> Clamp(F32Add(p.y, F32Mul(dy1, delta_s))),
                   dx |-> p.dx,
                   dy |-> dy1]
                  : dy1 \in {F32Add(p.dy, F32Mul(ACCEL_GRAVITY, delta_s))}} : TRUE

\* flap adding the impulse to dy instead of overriding it
flap_additive(p) == [p EXCEPT !.dy = F32Add(p.dy, VELOCITY_FLAP)]

flap(p) == [p EXCEPT !.dy = VELOCITY_FLAP]

\* -------------------------------------------------------------- Obstacle
\* Obstacle::new without the floor of the size
Obstacle_new_noFloor(x, s, g) == [x |-> x, gap_y |-> g, size |-> SIZE_BASE - s]

\* Obstacle::new with gaps two rows larger
Obstacle_new_larger(x, s, g) == [x |-> x, gap_y |-> g, size |-> Max(SIZE_MIN, SIZE_BASE + 2 - s)]

\* g is the value drawn by random.range(10, 40)
Obstacle_new(x, s, g) == [x |-> x, gap_y |-> g, size |-> Max(SIZE_MIN, SIZE_BASE - s)]

\* render starting the lower run one row below gap_y + size/2
render_lowerRunLate(o, player_x) ==
    LET screen_x == o.x - player_x + PLAYER_OFFSET
        half_size == TruncDiv(o.size, 2)
    IN  {[x |-> screen_x, from |-> 0, to |-> o.gap_y - half_size],
         [x |-> screen_x, from |-> o.gap_y + half_size + 1, to |-> SCREEN_HEIGHT]}

\* Obstacle::render for the player's world x: the two for loops, each a run
\* of '|' in column x over the half-open row range from..to
render(o, player_x) ==
    LET screen_x == o.x - player_x + PLAYER_OFFSET
        half_size == TruncDiv(o.size, 2)
    IN  {[x |-> screen_x, from |-> 0, to |-> o.gap_y - half_size],
         [x |-> screen_x, from |-> o.gap_y + half_size, to |-> SCREEN_HEIGHT]}

\* the cells a set of runs covers
Cells(runs) == UNION {{<<r.x, y>> : y \in r.from..(r.to - 1)} : r \in runs}

\* hit testing the row in every column
hit_anyColumn(o, p) ==
    LET half_size == TruncDiv(o.size, 2)
    IN  screen_y(p) < o.gap_y - half_size \/ screen_y(p) > o.gap_y + half_size

\* hit counting the two bounds of the gap as wall
hit_inclusive(o, p) ==
    LET half_size == TruncDiv(o.size, 2)
    IN  /\ world_x(p) = o.x
        /\ \/ screen_y(p) <= o.gap_y - half_size
           \/ screen_y(p) >= o.gap_y + half_size

hit(o, p) ==
    LET half_size == TruncDiv(o.size, 2)
        does_x_match == world_x(p) = o.x
        player_above_gap == screen_y(p) < o.gap_y - half_size
        player_below_gap == screen_y(p) > o.gap_y + half_size
    IN  does_x_match /\ (player_above_gap \/ player_below_gap)

\* ----------------------------------------------------------------- State
\* Player::new(PLAYER_OFFSET as f32, SCREEN_HEIGHT as f32 / 2.0)
StartPlayer == Player_new(FromInt(PLAYER_OFFSET), F32Div(FromInt(SCREEN_HEIGHT), FromInt(2)))

\* State::new; the obstacle's gap centre is random.  key holds ctx.key of the
\* latest tick and handler the function that served it.
Init ==
    /\ player = StartPlayer
    /\ \E g \in GapYs : obstacle = Obstacle_new(SCREEN_WIDTH, 0, g)
    /\ mode = "Menu"
    /\ score = 0
    /\ frame_time = F32_ZERO
    /\ quitting = FALSE
    /\ key = "None"
    /\ handler = "new"
    /\ hit_ret = FALSE
    /\ glyph = {}
    /\ walls = {}
    /\ tested = FALSE
    /\ replaced = <<>>
    /\ flaps_left = 0

\* restart keeping the player of the previous game
restart_keepPlayer(g) ==
    /\ player' = player
    /\ obstacle' = Obstacle_new(SCREEN_WIDTH, 0, g)
    /\ score' = 0
    /\ frame_time' = F32_ZERO
    /\ mode' = "Playing"
    /\ tested' = FALSE
    /\ replaced' = <<>>

\* restart keeping the score of the previous game
restart_keepScore(g) ==
    /\ player' = StartPlayer
    /\ obstacle' = Obstacle_new(SCREEN_WIDTH, 0, g)
    /\ score' = score
    /\ frame_time' = F32_ZERO
    /\ mode' = "Playing"
    /\ tested' = FALSE
    /\ replaced' = <<>>

\* State::restart
restart(g) ==
    /\ player' = StartPlayer
    /\ obstacle' = Obstacle_new(SCREEN_WIDTH, 0, g)
    /\ score' = 0
    /\ frame_time' = F32_ZERO
    /\ mode' = "Playing"
    /\ tested' = FALSE
    /\ replaced' = <<>>

\* the key match without its Q arm
MenuKeys_noQuit(k) ==
    CASE k = "P" -> (\E g \in GapYs : restart(g)) /\ UNCHANGED quitting
      [] OTHER -> UNCHANGED <<player, obstacle, score, frame_time, mode, quitting, tested, replaced>>

\* the key match starting the game on Space as well
MenuKeys_spaceStarts(k) ==
    CASE k \in {"P", "Space"} -> (\E g \in GapYs : restart(g)) /\ UNCHANGED quitting
      [] k = "Q" -> quitting' = TRUE /\ UNCHANGED <<player, obstacle, score, frame_time, mode, tested, replaced>>
      [] OTHER -> UNCHANGED <<player, obstacle, score, frame_time, mode, quitting, tested, replaced>>

\* the key match shared by State::main_menu and State::dead
MenuKeys(k) ==
    CASE k = "P" -> (\E g \in GapYs : restart(g)) /\ UNCHANGED quitting
      [] k = "Q" -> quitting' = TRUE /\ UNCHANGED <<player, obstacle, score, frame_time, mode, tested, replaced>>
      [] OTHER -> UNCHANGED <<player, obstacle, score, frame_time, mode, quitting, tested, replaced>>

\* State::main_menu; ctx.cls() clears the surface
main_menu(k) ==
    /\ MenuKeys(k)
    /\ key' = k
    /\ handler' = "main_menu"
    /\ glyph' = {}
    /\ walls' = {}
    /\ UNCHANGED hit_ret

\* dead sending key P back to the menu instead of restarting
dead_toMenu(k) ==
    /\ IF k = "P"
       THEN mode' = "Menu" /\ UNCHANGED <<player, obstacle, score, frame_time, quitting, tested, replaced>>
       ELSE MenuKeys(k)
    /\ key' = k
    /\ handler' = "dead"
    /\ glyph' = {}
    /\ walls' = {}
    /\ UNCHANGED hit_ret

\* State::dead; ctx.cls() clears the surface
dead(k) ==
    /\ MenuKeys(k)
    /\ key' = k
    /\ handler' = "dead"
    /\ glyph' = {}
    /\ walls' = {}
    /\ UNCHANGED hit_ret

\* ctx.frame_time_ms as f32 / 1000.0
delta_s(ms) == F32Div(FromInt(ms), FromInt(1000))

\* the flap consumed before the physics step
Moved_flapFirst(p, k, delta) ==
    IF k = "Space" THEN update(flap(p), delta) ELSE update(p, delta)

\* the player after the physics step and the flap key of State::play
Moved(p, k, delta) ==
    IF k = "Space" THEN flap(update(p, delta)) ELSE update(p, delta)

\* the pass test with the offset subtracted (sign slip)
Passed_early(p, o) == world_x(p) > o.x - PLAYER_OFFSET

\* the obstacle-pass test of State::play
Passed(p, o) == world_x(p) > o.x + PLAYER_OFFSET

\* the new obstacle placed behind the player (sign slip)
NextObstacleX_behind(p) == world_x(p) - SCREEN_WIDTH + PLAYER_OFFSET

\* the world x State::play gives the obstacle that replaces a passed one
NextObstacleX(p) == world_x(p) + SCREEN_WIDTH - PLAYER_OFFSET

\* the bottom-edge test of State::play
OffBottom(p) == screen_y(p) > SCREEN_HEIGHT

\* State::play with a frame of ms milliseconds.  The player and the obstacle
\* are rendered before the pass test; g is what random.range returns when the
\* pass test calls Obstacle::new.  hit_ret records the value hit() returned,
\* FALSE when the || short-circuits and hit() is not called.  p2 is the
\* player after the update and the flap.
play(k, ms) ==
    /\ key' = k
    /\ handler' = "play"
    /\ UNCHANGED <<frame_time, quitting>>
    /\ \E p2 \in {Moved(player, k, d) : d \in {delta_s(ms)}} :
          /\ player' = p2
          /\ glyph' = Player_render(p2)
          /\ walls' = render(obstacle, world_x(p2))
          /\ IF Passed(p2, obstacle)
             THEN /\ score' = score + 1
                  /\ \E g \in GapYs : obstacle' = Obstacle_new(NextObstacleX(p2), score + 1, g)
                  /\ tested' = FALSE
                  /\ replaced' = <<[x |-> obstacle.x, gap_y |-> obstacle.gap_y,
                                   size |-> obstacle.size, tested |-> tested,
                                   from_x |-> world_x(player)]>>
             ELSE /\ score' = score
                  /\ obstacle' = obstacle
                  /\ tested' = (tested \/ (~OffBottom(p2) /\ ~hit(obstacle, p2)
                                               /\ world_x(p2) = obstacle.x))
                  /\ replaced' = <<>>
          /\ mode' = IF OffBottom(p2) \/ hit(obstacle', p2) THEN "End" ELSE "Playing"
          /\ hit_ret' = (~OffBottom(p2) /\ hit(obstacle', p2))

\* a Playing tick whose key is drawn from K and whose frame time from D
PlayingTick(K, D) == \E k \in K, ms \in D : play(k, ms)

\* State::tick dispatches on the mode; main_loop stops ticking once quitting is set
TickMenu ==
    /\ ~quitting
    /\ mode = "Menu"
    /\ \E k \in Keys : main_menu(k)
    /\ UNCHANGED flaps_left

TickPlaying ==
    /\ ~quitting
    /\ mode = "Playing"
    /\ score < MaxScore
    /\ PlayingTick(Keys, Deltas)
    /\ UNCHANGED flaps_left

TickEnd ==
    /\ ~quitting
    /\ mode = "End"
    /\ \E k \in Keys : dead(k)
    /\ UNCHANGED flaps_left

Next == TickMenu \/ TickPlaying \/ TickEnd

Spec == Init /\ [][Next]_vars

\* ------------------------------------------------------- other frame times
\* The game with long frames only (1 s and 1.5 s).
FastDeltas == {1000, 1500}
MaxFastScore == 1

TickPlayingFast ==
    /\ ~quitting
    /\ mode = "Playing"
    /\ score < MaxFastScore
    /\ PlayingTick(Keys, FastDeltas)
    /\ UNCHANGED flaps_left

FastNext == TickMenu \/ TickPlayingFast \/ TickEnd

FastSpec == Init /\ [][FastNext]_vars

\* The game with short frames only (50 ms and 60 ms: the player advances 0.75
\* or 0.9 columns a tick) and a player who flaps in every frame, which keeps
\* the rows few (the player climbs to row 0 and stays) and the columns many.
SmallDeltas == {50, 60}
SmallKeys == {"Space"}
MaxSmallScore == 2

TickPlayingSmall ==
    /\ ~quitting
    /\ mode = "Playing"
    /\ score < MaxSmallScore
    /\ PlayingTick(SmallKeys, SmallDeltas)
    /\ UNCHANGED flaps_left

SmallNext == TickMenu \/ TickPlayingSmall \/ TickEnd

SmallSpec == Init /\ [][SmallNext]_vars

\* One game of a player who makes at most MaxFlaps flaps in it, with frames of
\* 1 s and 2 s; flaps_left is what is left of the flaps the player decided on
\* when the game started.  The player does not replay from the End screen (no
\* key P there).  main_loop calls tick for every frame, so a Playing tick that
\* is possible is eventually taken.
FallDeltas == {1000, 2000}
\* the player presses no key but Space while playing
FallKeys == {"None", "Space"}
MaxFlaps == 3
\* Playing ticks of FallSpec are taken only while score < MaxFallScore; with
\* MaxFlaps flaps no game gets that far.
MaxFallScore == 2

TickMenuFall ==
    /\ ~quitting
    /\ mode = "Menu"
    /\ \E k \in Keys :
          /\ main_menu(k)
          /\ IF k = "P" THEN flaps_left' \in 0..MaxFlaps ELSE UNCHANGED flaps_left

TickPlayingFall ==
    /\ ~quitting
    /\ mode = "Playing"
    /\ score < MaxFallScore
    /\ PlayingTick(IF flaps_left > 0 THEN FallKeys ELSE FallKeys \ {"Space"}, FallDeltas)
    /\ flaps_left' = IF key' = "Space" THEN flaps_left - 1 ELSE flaps_left

TickEndFall ==
    /\ ~quitting
    /\ mode = "End"
    /\ \E k \in Keys \ {"P"} : dead(k)
    /\ UNCHANGED flaps_left

FallNext == TickMenuFall \/ TickPlayingFall \/ TickEndFall

FallSpec == Init /\ [][FallNext]_vars /\ WF_vars(TickPlayingFall)

\* Long games: frames of 1.5 s only (22.5 columns a tick) and a player who
\* presses no key but Space, played up to score MaxLongScore, beyond the score
\* at which the obstacle size stops shrinking.
LongDeltas == {1500}
LongKeys == {"None", "Space"}
MaxLongScore == 20

TickPlayingLong ==
    /\ ~quitting
    /\ mode = "Playing"
    /\ score < MaxLongScore
    /\ PlayingTick(LongKeys, LongDeltas)
    /\ UNCHANGED flaps_left

LongNext == TickMenu \/ TickPlayingLong \/ TickEnd

LongSpec == Init /\ [][LongNext]_vars

\* ------------------------------------------------- the functions one by one
\* Each function of Player, Obstacle and State applied once to a state drawn
\* from bounded sets (flap may follow any call, itself included).
UnitXs == {Dec(949999, 100000), Dec(95, 10), FromInt(10), Dec(1049999, 100000), Dec(105, 10)}
UnitYs == {FromInt(-3), F32_ZERO, Dec(3, 10), FromInt(10), Dec(1649999, 100000), Dec(165, 10),
           FromInt(20), Dec(2349999, 100000), Dec(235, 10), Dec(495, 10), Dec(505, 10)}
UnitDys == {FromInt(-20), Dec(-96, 10), F32_ZERO, FromInt(5)}
UnitObstacleXs == {10, 11}
UnitGapYs == {GAP_Y_MIN, 20, GAP_Y_MAX - 1}
UnitSizes == {SIZE_MIN, 6, 19, SIZE_BASE}
\* (mode, score) pairs a call may find
UnitModes == {<<"Menu", 0>>, <<"Playing", 7>>, <<"End", 7>>}
\* frame times in milliseconds
UnitDeltas == {0, 10, 1000, 1500}
\* Obstacle::new reads nothing of the state: it is called in one state a mode
UnitPlayer == [x |-> FromInt(10), y |-> FromInt(20), dx |-> PLAYER_DX, dy |-> F32_ZERO]
UnitObstacle == [x |-> 10, gap_y |-> 20, size |-> 6]

UnitInit ==
    /\ player \in [x : UnitXs, y : UnitYs, dx : {PLAYER_DX}, dy : UnitDys]
    /\ obstacle \in [x : UnitObstacleXs, gap_y : UnitGapYs, size : UnitSizes]
    /\ \E ms \in UnitModes : mode = ms[1] /\ score = ms[2]
    /\ frame_time = F32_ZERO
    /\ quitting = FALSE
    /\ key = "None"
    /\ handler = "none"
    /\ hit_ret = FALSE
    /\ glyph = {}
    /\ walls = {}
    /\ tested = FALSE
    /\ replaced = <<>>
    /\ flaps_left = 0

CallUpdate ==
    /\ handler = "none"
    /\ \E ms \in UnitDeltas : player' = update(player, delta_s(ms))
    /\ handler' = "update"
    /\ UNCHANGED <<obstacle, mode, score, frame_time, quitting, key, hit_ret, glyph, walls, tested, replaced, flaps_left>>

CallFlap ==
    /\ player' = flap(player)
    /\ handler' = "flap"
    /\ UNCHANGED <<obstacle, mode, score, frame_time, quitting, key, hit_ret, glyph, walls, tested, replaced, flaps_left>>

CallHit ==
    /\ handler = "none"
    /\ hit_ret' = hit(obstacle, player)
    /\ handler' = "hit"
    /\ UNCHANGED <<player, obstacle, mode, score, frame_time, quitting, key, glyph, walls, tested, replaced, flaps_left>>

CallObstacleNew ==
    /\ handler = "none"
    /\ player = UnitPlayer
    /\ obstacle = UnitObstacle
    /\ \E s \in 0..MaxUnitScore, g \in GapYs :
          /\ obstacle' = Obstacle_new(SCREEN_WIDTH, s, g)
          /\ score' = s
    /\ handler' = "Obstacle_new"
    /\ UNCHANGED <<player, mode, frame_time, quitting, key, hit_ret, glyph, walls, tested, replaced, flaps_left>>

CallRestart ==
    /\ handler = "none"
    /\ \E g \in GapYs : restart(g)
    /\ handler' = "restart"
    /\ UNCHANGED <<quitting, key, hit_ret, glyph, walls, flaps_left>>

UnitNext == CallUpdate \/ CallFlap \/ CallHit \/ CallObstacleNew \/ CallRestart

UnitSpec == UnitInit /\ [][UnitNext]_vars

\* ---------------------------------------------------------------- claims
\* A step of Spec taken from a state in Menu or End mode is a tick of
\* main_menu or dead; one taken from Playing mode is a tick of play.
InMenuOrEnd == mode \in {"Menu", "End"}

\* C1: the game starts in Menu mode, and the only mode changes a tick ever
\* makes are Menu->Playing (key P), Playing->End and End->Playing (key P).
C1_ModeTransitions ==
    /\ mode = "Menu"
    /\ [][mode' # mode =>
            \/ (mode = "Menu" /\ mode' = "Playing" /\ key' = "P")
            \/ (mode = "Playing" /\ mode' = "End")
            \/ (mode = "End" /\ mode' = "Playing" /\ key' = "P")]_vars

\* a replay from End mode has just happened (so all three transitions have)
C1_Witness == handler = "dead" /\ key = "P" /\ mode = "Playing"

\* C2: a Playing tick ends in End mode if and only if afterwards the player's
\* rounded y is beyond the last visible row (SCREEN_HEIGHT - 1) or the
\* obstacle is hit; so in Playing mode the rounded y is a visible row.
C2_EndIffBelowLastRowOrHit ==
    [][mode = "Playing" =>
          /\ mode' = "End" <=>
                (screen_y(player') > SCREEN_HEIGHT - 1 \/ hit(obstacle', player'))
          /\ mode' = "Playing" => screen_y(player') \in 0..(SCREEN_HEIGHT - 1)]_vars

\* C3: a tick that calls restart (key P in Menu or End mode) leaves mode
\* Playing, score 0, the player at (5, 25) with dy 0 and dx 15, and a fresh
\* obstacle at x 80 of size 20, whatever the state was before.
C3_RestartResetsAll ==
    (key = "P" /\ handler \in {"main_menu", "dead"}) =>
        /\ mode = "Playing"
        /\ score = 0
        /\ player = [x |-> FromInt(5), y |-> FromInt(25), dx |-> FromInt(15), dy |-> F32_ZERO]
        /\ obstacle.x = 80
        /\ obstacle.size = 20
        /\ obstacle.gap_y \in 10..39
        /\ frame_time = F32_ZERO

\* restart has just been called from End mode
C3_Witness == key = "P" /\ handler = "dead" /\ score = 0 /\ player.dy = F32_ZERO

\* C4: in a Playing tick the passing condition gives exactly one increment of
\* the score and one new obstacle at world_x + SCREEN_WIDTH - PLAYER_OFFSET;
\* without it score and obstacle stay; after the tick the passing condition
\* is false for the live obstacle.
C4_PassCountsOnce ==
    [][mode = "Playing" =>
          LET passing == world_x(player') > obstacle.x + PLAYER_OFFSET
          IN  /\ passing =>
                    /\ score' = score + 1
                    /\ obstacle'.x = world_x(player') + SCREEN_WIDTH - PLAYER_OFFSET
                    /\ obstacle'.x > obstacle.x
              /\ ~passing => (score' = score /\ obstacle' = obstacle)
              /\ obstacle'.x + PLAYER_OFFSET >= world_x(player')]_vars

\* the tick that has just run replaced a passed obstacle
C4_Witness ==
    /\ handler = "play"
    /\ score >= 1
    /\ obstacle.x = world_x(player) + SCREEN_WIDTH - PLAYER_OFFSET

\* C5: hit returns true exactly when the rounded world x equals the
\* obstacle's x and the rounded y is strictly below gap_y - size/2 or strictly
\* above gap_y + size/2 (size/2 truncating).
C5_HitIff ==
    handler = "hit" =>
        (hit_ret <=>
            /\ world_x(player) = obstacle.x
            /\ \/ screen_y(player) < obstacle.gap_y - obstacle.size \div 2
               \/ screen_y(player) > obstacle.gap_y + obstacle.size \div 2)

\* the scenario of the specification: x 10, gap_y 20, size 6, player row 10
C5_Witness ==
    /\ handler = "hit"
    /\ hit_ret
    /\ obstacle = [x |-> 10, gap_y |-> 20, size |-> 6]
    /\ world_x(player) = 10
    /\ screen_y(player) = 10

\* C6: the live obstacle's size is max(2, 20 - score): 20 at score 0, 2 from
\* score 18 on; it grows only in a tick that restarts the game.
C6_SizeFollowsScore ==
    /\ [](obstacle.size = IF score >= 18 THEN 2 ELSE 20 - score)
    /\ [][obstacle'.size > obstacle.size =>
             (InMenuOrEnd /\ key' = "P" /\ obstacle'.size = 20)]_vars

\* a game that reached the floor of the size
C6_Witness == mode = "Playing" /\ score >= 19 /\ obstacle.size = 2

\* C7: the score starts at 0, is never negative, rises only by 1 and only in
\* a Playing tick, and otherwise changes only when a restart sets it to 0.
C7_ScoreMonotone ==
    /\ score = 0
    /\ [](score >= 0)
    /\ [][/\ score' # score =>
                \/ (mode = "Playing" /\ score' = score + 1)
                \/ (InMenuOrEnd /\ key' = "P" /\ score' = 0)
          /\ (InMenuOrEnd /\ key' = "P") => score' = 0
          /\ (mode = "End" /\ mode' = "End") => score' = score]_vars

\* a tick in End mode kept a positive score
C7_Witness == handler = "dead" /\ mode = "End" /\ score >= 1

\* C8: after Player::update the player's y is never negative, for every
\* frame time and every prior y and dy.
C8_UpdateKeepsYNonNegative == handler = "update" => player.y.m >= 0

\* update has clamped a player that was moving up
C8_Witness == handler = "update" /\ player.y = F32_ZERO /\ player.dy.m < 0

\* C9: flap sets dy to the flap constant whatever it was and leaves x, y and
\* dx alone; a second flap changes nothing.
C9_FlapSetsDy ==
    [][handler' = "flap" =>
          /\ player'.dy = FromInt(-15)
          /\ player'.x = player.x
          /\ player'.y = player.y
          /\ player'.dx = player.dx
          /\ handler = "flap" => player' = player]_vars

\* flap has been called on a player that update had just moved
C9_Witness == handler = "flap" /\ player.dy = VELOCITY_FLAP /\ player.x \notin UnitXs

\* C10: quitting is set only by a Q tick in Menu or End mode, every such tick
\* sets it and leaves mode, score, player and obstacle alone; a Playing tick
\* never sets it.
C10_QuitOnlyFromMenuOrEnd ==
    [][/\ quitting' # quitting => (quitting' /\ InMenuOrEnd /\ key' = "Q")
       /\ (InMenuOrEnd /\ key' = "Q") =>
             (quitting' /\ UNCHANGED <<mode, score, player, obstacle>>)
       /\ mode = "Playing" => quitting' = quitting]_vars

\* the player has quit from the End screen after a game with a score
C10_Witness == quitting /\ mode = "End" /\ key = "Q" /\ score >= 1

\* The obstacle the latest Playing tick rendered: render runs before the pass
\* test, so it is the replaced obstacle if the tick replaced one.
Rendered == IF replaced # <<>> THEN replaced[1] ELSE obstacle

\* the screen column Obstacle::render computes for the rendered obstacle
RenderedColumn == Rendered.x - world_x(player) + PLAYER_OFFSET

\* the visible rows on which the latest tick drew a wall cell
WallRows == UNION {r.from..(r.to - 1) : r \in walls}

\* C11 as stated: the wall is drawn in the obstacle's column on exactly the
\* rows above gap_y - size/2 and from gap_y + size/2 down to the last row,
\* and the undrawn gap between the two runs has height exactly size.
C11_GapHeightIsSize ==
    handler = "play" =>
        LET half == Rendered.size \div 2
            rows == WallRows
            gap == (0..(SCREEN_HEIGHT - 1)) \ rows
        IN  /\ \A r \in walls : r.x = RenderedColumn
            /\ rows = (0..(Rendered.gap_y - half - 1)) \cup ((Rendered.gap_y + half)..(SCREEN_HEIGHT - 1))
            /\ Cardinality(gap) = Rendered.size

\* C11 as amended: the wall rows are as stated; the undrawn gap is the rows
\* gap_y - size/2 .. gap_y + size/2 - 1, of height size if size is even and
\* size - 1 if it is odd.
C11_GapHeightIsTwiceHalf ==
    handler = "play" =>
        LET half == Rendered.size \div 2
            rows == WallRows
            gap == (0..(SCREEN_HEIGHT - 1)) \ rows
        IN  /\ \A r \in walls : r.x = RenderedColumn
            /\ rows = (0..(Rendered.gap_y - half - 1)) \cup ((Rendered.gap_y + half)..(SCREEN_HEIGHT - 1))
            /\ gap = (Rendered.gap_y - half)..(Rendered.gap_y + half - 1)
            /\ Cardinality(gap) = IF Rendered.size % 2 = 0 THEN Rendered.size ELSE Rendered.size - 1

\* an obstacle of odd size has been drawn with a gap one row short of its size
C11_Witness ==
    /\ handler = "play"
    /\ Rendered.size = 19
    /\ Cardinality((0..(SCREEN_HEIGHT - 1)) \ WallRows) = 18

\* C14: whenever a Playing tick has drawn a wall cell on the cell of the
\* player glyph, the tick ends in End mode.
C14_DrawnCollisionIsFatal ==
    (handler = "play" /\ glyph \cap Cells(walls) # {}) => mode = "End"

\* C15: in a Playing tick the physics step comes before the flap: x and y
\* are those of update alone whatever the key; with Space dy ends as the flap
\* constant, with any other key or none dy is update's dy.
C15_UpdateBeforeFlap ==
    [][mode = "Playing" =>
          \E ms \in Deltas :
              LET u == update(player, delta_s(ms))
              IN  /\ player'.x = u.x
                  /\ player'.y = u.y
                  /\ player'.dx = u.dx
                  /\ player'.dy = IF key' = "Space" THEN FromInt(-15) ELSE u.dy]_vars

\* the first tick of a game, one second long, with Space: the player has
\* fallen to 34.8 as without the key, and dy is the flap constant
C15_Witness ==
    /\ handler = "play"
    /\ key = "Space"
    /\ player = [x |-> FromInt(20), y |-> Dec(348, 10), dx |-> PLAYER_DX, dy |-> VELOCITY_FLAP]

\* C16: a tick in Menu or End mode whose key is not P leaves player,
\* obstacle, score and mode unchanged.
C16_MenuAndEndTicksFreeze ==
    [][(InMenuOrEnd /\ key' # "P") => UNCHANGED <<player, obstacle, score, mode>>]_vars

\* a Space tick in End mode after a game with a score
C16_Witness == handler = "dead" /\ key = "Space" /\ mode = "End" /\ score >= 1

\* C17: every obstacle has 10 <= gap_y < 40 and its gap inside the visible
\* rows, so some visible row in its column is not a hit.
C17_GapOnScreen ==
    /\ obstacle.gap_y >= 10
    /\ obstacle.gap_y < 40
    /\ obstacle.gap_y - obstacle.size \div 2 >= 0
    /\ obstacle.gap_y + obstacle.size \div 2 <= SCREEN_HEIGHT - 1
    /\ \E row \in 0..(SCREEN_HEIGHT - 1) :
          ~hit(obstacle, [x |-> FromInt(obstacle.x), y |-> FromInt(row), dx |-> PLAYER_DX, dy |-> F32_ZERO])

\* the obstacle of a running game whose gap touches the last visible row
C17_Witness ==
    /\ mode = "Playing"
    /\ obstacle.gap_y = GAP_Y_MAX - 1
    /\ obstacle.gap_y + obstacle.size \div 2 = SCREEN_HEIGHT - 1

\* C19: update adds gravity to dy first, moves y by the new dy and clamps it
\* at 0, moves x by dx and keeps dx; from (5, 25) with dy 0 one second gives
\* dy 9.8 and y 34.8; the world x never decreases in a Playing tick.
C19_UpdateOrder ==
    [][mode = "Playing" =>
          /\ \E ms \in Deltas :
                LET delta == Dec(ms, 1000)
                    dy1 == F32Add(player.dy, F32Mul(Dec(98, 10), delta))
                    y1 == F32Add(player.y, F32Mul(dy1, delta))
                IN  /\ player'.y = IF y1.m > 0 THEN y1 ELSE F32_ZERO
                    /\ player'.x = F32Add(player.x, F32Mul(player.dx, delta))
                    /\ player'.dx = player.dx
                    /\ key' # "Space" => player'.dy = dy1
          /\ (player = StartPlayer /\ player'.x = FromInt(20)) =>
                (player'.y = Dec(348, 10) /\ (key' # "Space" => player'.dy = Dec(98, 10)))
          /\ world_x(player') >= world_x(player)]_vars

\* the scenario of the specification, reached by the first tick of a game
C19_Witness ==
    /\ handler = "play"
    /\ player = [x |-> FromInt(20), y |-> Dec(348, 10), dx |-> PLAYER_DX, dy |-> Dec(98, 10)]

\* C12: a Playing tick that takes the player's rounded world x from below
\* the obstacle's column to beyond obstacle.x + PLAYER_OFFSET is a pass and
\* never a collision, whatever the player's row: the score is incremented,
\* the obstacle replaced, hit() is false, and the mode stays Playing unless
\* the player is off the bottom.
C12_JumpOverColumnIsAPass ==
    [][(mode = "Playing" /\ world_x(player) < obstacle.x
           /\ world_x(player') > obstacle.x + PLAYER_OFFSET) =>
          /\ score' = score + 1
          /\ obstacle'.x = world_x(player') + SCREEN_WIDTH - PLAYER_OFFSET
          /\ ~hit_ret'
          /\ mode' = "Playing" <=> screen_y(player') <= SCREEN_HEIGHT]_vars

\* a tunnel-through: the latest tick took the player from before the column
\* of an obstacle to beyond it, on a row outside its gap, the player was never
\* in its column, and the game goes on
C12_Witness ==
    /\ handler = "play"
    /\ mode = "Playing"
    /\ replaced # <<>>
    /\ ~replaced[1].tested
    /\ replaced[1].from_x < replaced[1].x
    /\ world_x(player) > replaced[1].x + PLAYER_OFFSET
    /\ \/ screen_y(player) < replaced[1].gap_y - replaced[1].size \div 2
       \/ screen_y(player) > replaced[1].gap_y + replaced[1].size \div 2

\* C13: when every tick advances the rounded world x by at most 1, the score
\* is incremented for an obstacle only after a tick that found the player in
\* the obstacle's column and hit() false.
C13_NoPassWithoutTest ==
    [][mode = "Playing" =>
          /\ world_x(player') <= world_x(player) + 1
          /\ score' = score + 1 => tested]_vars

\* an obstacle has been passed after the player was tested in its column
C13_Witness ==
    /\ handler = "play"
    /\ score = 1
    /\ replaced # <<>>
    /\ replaced[1].tested
    /\ replaced[1].from_x >= replaced[1].x + PLAYER_OFFSET

\* C18: once the player has stopped flapping, a game in Playing mode ends.
C18_GameEndsWithoutFlaps == (mode = "Playing" /\ flaps_left = 0) ~> (mode = "End")

\* a game has ended after the player used up the flaps and stopped
C18_Witness == mode = "End" /\ handler = "play" /\ flaps_left = 0 /\ player.dy.m > 0

====
